---- MODULE Spec2Model ----
(***************************************************************************)
(* A model of qr-diskdrive.py: the frame encoder (getAndSplitFile), the    *)
(* capacity resolver (setDefaults, validateUserInput,                      *)
(* setPDFpageDimensionVars, getVersionFromChunk, reduceChunkSize) and the  *)
(* frame reassembler (readFromCamera, readFromPNG, decodeQRandAppend,      *)
(* writeOutputFile).                                                       *)
(*                                                                         *)
(* A Python str is a sequence of one-character strings, a bytes object a   *)
(* sequence of integers 0..255.  None is a one-element sequence whose      *)
(* element is no character, so it differs from every str.                  *)
(***************************************************************************)
EXTENDS Integers, Sequences, FiniteSets, TLC

(***************************************************************************)
(* Bounds of the model.                                                    *)
(***************************************************************************)
\* longest file content that is enumerated exhaustively over Bytes
MaxLen == 2
\* a camera or PNG session presents at most this many frames
MaxScans == 3

None == <<"None">>

\* no exception was raised
NoError == "none"

(***************************************************************************)
(* Python str and slice primitives.                                        *)
(***************************************************************************)
\* s[n:]
Drop(s, n) == SubSeq(s, n + 1, Len(s))

\* s[0:len(p)] == p
StartsWith(s, p) == Len(s) >= Len(p) /\ SubSeq(s, 1, Len(p)) = p

\* the set of 0-based offsets at which p occurs in s
Occurrences(s, p) ==
    {i \in 0..(Len(s) - Len(p)) : SubSeq(s, i + 1, i + Len(p)) = p}

\* s.index(p) finds the first occurrence; it raises ValueError when there
\* is none, which callers test with Contains
Contains(s, p) == Occurrences(s, p) # {}

StrIndex(s, p) == CHOOSE i \in Occurrences(s, p) :
                     \A j \in Occurrences(s, p) : i <= j

Digits == <<"0", "1", "2", "3", "4", "5", "6", "7", "8", "9">>

IsDigit(ch) == \E d \in 1..10 : Digits[d] = ch

DigitValue(ch) == (CHOOSE d \in 1..10 : Digits[d] = ch) - 1

RECURSIVE str(_)
\* str(n) for an int n
str(n) ==
    IF n < 0 THEN <<"-">> \o str(0 - n)
    ELSE IF n < 10 THEN <<Digits[n + 1]>>
    ELSE str(n \div 10) \o <<Digits[(n % 10) + 1]>>

RECURSIVE DigitsValue(_)
DigitsValue(s) ==
    IF s = <<>> THEN 0
    ELSE 10 * DigitsValue(SubSeq(s, 1, Len(s) - 1)) + DigitValue(s[Len(s)])

AllDigits(s) == s # <<>> /\ \A i \in 1..Len(s) : IsDigit(s[i])

\* int(s) accepts an optional sign followed by decimal digits (leading
\* zeros included); on anything else it raises ValueError
IntParses(s) ==
    \/ AllDigits(s)
    \/ Len(s) > 1 /\ s[1] \in {"+", "-"} /\ AllDigits(Tail(s))

int(s) ==
    IF s[1] = "-" THEN 0 - DigitsValue(Tail(s))
    ELSE IF s[1] = "+" THEN DigitsValue(Tail(s))
    ELSE DigitsValue(s)

(***************************************************************************)
(* base64.b64encode and base64.b64decode (binascii.a2b_base64, not in      *)
(* strict mode).                                                           *)
(***************************************************************************)
B64Chars ==
    << "A", "B", "C", "D", "E", "F", "G", "H", "I", "J", "K", "L", "M",
       "N", "O", "P", "Q", "R", "S", "T", "U", "V", "W", "X", "Y", "Z",
       "a", "b", "c", "d", "e", "f", "g", "h", "i", "j", "k", "l", "m",
       "n", "o", "p", "q", "r", "s", "t", "u", "v", "w", "x", "y", "z",
       "0", "1", "2", "3", "4", "5", "6", "7", "8", "9", "+", "/" >>

IsB64Char(ch) == \E i \in 1..64 : B64Chars[i] = ch

B64Value(ch) == (CHOOSE i \in 1..64 : B64Chars[i] = ch) - 1

B64(v) == B64Chars[v + 1]

RECURSIVE b64encode(_)
b64encode(b) ==
    IF b = <<>> THEN <<>>
    ELSE IF Len(b) = 1 THEN
        << B64(b[1] \div 4), B64((b[1] % 4) * 16), "=", "=" >>
    ELSE IF Len(b) = 2 THEN
        << B64(b[1] \div 4), B64((b[1] % 4) * 16 + b[2] \div 16),
           B64((b[2] % 16) * 4), "=" >>
    ELSE
        << B64(b[1] \div 4), B64((b[1] % 4) * 16 + b[2] \div 16),
           B64((b[2] % 16) * 4 + b[3] \div 64), B64(b[3] % 64) >>
        \o b64encode(Drop(b, 3))

RECURSIVE a2b_base64(_, _, _, _, _)
\* the decoding loop: s is the input still to read, quad_pos the position
\* in the current group of four, leftchar the bits carried over, pads the
\* padding characters seen in a row, bin the bytes produced so far
a2b_base64(s, quad_pos, leftchar, pads, bin) ==
    IF s = <<>> THEN
        [ok |-> quad_pos = 0, data |-> bin]
    ELSE IF Head(s) = "=" THEN
        IF quad_pos >= 2 /\ quad_pos + pads + 1 >= 4
        THEN [ok |-> TRUE, data |-> bin]
        ELSE a2b_base64(Tail(s), quad_pos, leftchar,
                        IF quad_pos >= 2 THEN pads + 1 ELSE pads, bin)
    ELSE IF ~IsB64Char(Head(s)) THEN
        a2b_base64(Tail(s), quad_pos, leftchar, pads, bin)
    ELSE
        LET c == B64Value(Head(s)) IN
        CASE quad_pos = 0 -> a2b_base64(Tail(s), 1, c, 0, bin)
          [] quad_pos = 1 -> a2b_base64(Tail(s), 2, c % 16, 0,
                                 Append(bin, leftchar * 4 + c \div 16))
          [] quad_pos = 2 -> a2b_base64(Tail(s), 3, c % 4, 0,
                                 Append(bin, leftchar * 16 + c \div 4))
          [] quad_pos = 3 -> a2b_base64(Tail(s), 0, 0, 0,
                                 Append(bin, leftchar * 64 + c))

\* b64decode(s): ok is FALSE where binascii.Error is raised
b64decode(s) == a2b_base64(s, 0, 0, 0, <<>>)

(***************************************************************************)
(* Files.  A file content is a sequence of bytes drawn from Bytes: an      *)
(* ASCII letter, a carriage return and the byte 0xFF.                      *)
(***************************************************************************)
Bytes == {65, 13, 255}

\* the character a byte of a text file decodes to
Chr(b) == CASE b = 65 -> "A" [] b = 13 -> "\r" [] b = 10 -> "\n"
            [] OTHER -> "?"

\* the bytes as characters, one for one
RawChars(b) == [i \in 1..Len(b) |-> Chr(b[i])]

RECURSIVE TextRead(_)
\* open(filename, 'r').read(): universal newlines turn "\r\n" and a lone
\* "\r" into "\n"
TextRead(b) ==
    IF b = <<>> THEN <<>>
    ELSE IF b[1] = 13 THEN
        <<"\n">> \o TextRead(IF Len(b) > 1 /\ b[2] = 10 THEN Drop(b, 2)
                             ELSE Tail(b))
    ELSE <<Chr(b[1])>> \o TextRead(Tail(b))

\* binaryornot's is_binary on the bytes of Bytes: an empty file is text, a
\* file holding a null byte or 0xFF is binary
is_binary(b) == \E i \in 1..Len(b) : b[i] \in {0, 255}

\* the code point of a character read from a text file
Ord(ch) == CASE ch = "A" -> 65 [] ch = "\n" -> 10 [] ch = "\r" -> 13
             [] OTHER -> 255

isAscii(input_string) ==
    \A i \in 1..Len(input_string) : ~(Ord(input_string[i]) > 127)

\* shutil.make_archive / shutil.unpack_archive: the archive of a file is
\* a header (one null byte here) followed by the file's bytes
ZipHeader == <<0>>

make_archive(b) == ZipHeader \o b

IsArchive(b) == StartsWith(b, ZipHeader)

unpack_archive(b) == Drop(b, Len(ZipHeader))

\* path.basename: what follows the last "/"
basename(p) ==
    IF \E i \in 1..Len(p) : p[i] = "/"
    THEN Drop(p, CHOOSE i \in 1..Len(p) :
                    p[i] = "/" /\ \A j \in (i + 1)..Len(p) : p[j] # "/")
    ELSE p

\* getextension (path.splitext): from the last "." of the name on, when a
\* character other than "." precedes it; else empty
getextension(filename) ==
    LET n == basename(filename)
        dots == {i \in 1..Len(n) : n[i] = "."}
    IN  IF dots = {} THEN <<>>
        ELSE LET d == CHOOSE i \in dots : \A j \in dots : j <= i
             IN  IF \E k \in 1..(d - 1) : n[k] # "." THEN Drop(n, d - 1)
                 ELSE <<>>

(***************************************************************************)
(* The frame encoder.                                                      *)
(***************************************************************************)
B64Marker == <<"b", "6", "4", ":">>
ZipMarker == <<":", "z", ":">>
NameOpen == <<":", ":", "f", ":", ":">>
NameClose == <<":", ":", "/", "f", ":", ":">>
CountOpen == <<":", ":", "c">>
CountClose == <<":", ":">>
ZipExt == <<".", "z", "i", "p">>

\* the index marker counts from 1
CountMarker_FromOne(index) == CountOpen \o str(index + 1) \o CountClose

\* '::c' + str(index) + '::'
CountMarker(index) == CountOpen \o str(index) \o CountClose

RECURSIVE SplitLoop(_, _, _, _, _)
\* a frame is closed one character before it is full
SplitLoop_ClosesEarly(fullFile, buffer, index, blobList, chunkSize) ==
    IF fullFile = <<>> THEN
        IF Len(buffer) > 0 THEN Append(blobList, buffer) ELSE blobList
    ELSE
        LET filled == Append(buffer, Head(fullFile)) IN
        IF Len(filled) = chunkSize - 1
        THEN SplitLoop(Tail(fullFile), CountMarker(index + 1), index + 1,
                       Append(blobList, filled), chunkSize)
        ELSE SplitLoop(Tail(fullFile), filled, index, blobList, chunkSize)

\* the slicing loop of getAndSplitFile, one iteration per character: byte
\* is Head(fullFile), and the loop ends when fullFile is used up
SplitLoop(fullFile, buffer, index, blobList, chunkSize) ==
    IF fullFile = <<>> THEN
        IF Len(buffer) > 0 THEN Append(blobList, buffer) ELSE blobList
    ELSE
        LET filled == Append(buffer, Head(fullFile)) IN
        IF Len(filled) = chunkSize
        THEN SplitLoop(Tail(fullFile), CountMarker(index + 1), index + 1,
                       Append(blobList, filled), chunkSize)
        ELSE SplitLoop(Tail(fullFile), filled, index, blobList, chunkSize)

\* whether the file is read as bytes and base64-encoded
BASE64ENCODE(data) == is_binary(data) \/ ~isAscii(TextRead(data))

\* the prefix of frame 0: flags, file name and the first index marker
HeaderPrefix(data, filename, preset_outFileName, zipFirst) ==
    LET flags == IF BASE64ENCODE(data)
                 THEN B64Marker \o (IF zipFirst THEN ZipMarker ELSE <<>>)
                 ELSE <<>>
        name == IF preset_outFileName = <<>> \/ preset_outFileName = None
                THEN filename ELSE preset_outFileName
    IN  flags \o NameOpen \o basename(name) \o NameClose \o CountMarker(0)

\* getAndSplitFile(filename, chunkSize, preset_outFileName) for a file of
\* the given content: the list of frames, or the exception raised.  The
\* archive is made as <directory>\<preset_outFileName>.zip and then read as
\* <filename>.zip: the same file only if the two names agree
getAndSplitFile(content, filename, chunkSize, preset_outFileName, zipFirst) ==
    LET zipName == IF zipFirst THEN filename \o ZipExt ELSE filename
        data == IF zipFirst THEN make_archive(content) ELSE content
        fullFile == IF BASE64ENCODE(data) THEN b64encode(data)
                    ELSE TextRead(data)
    IN  IF zipFirst /\ preset_outFileName # basename(filename)
        THEN [error |-> "FileNotFoundError", blobList |-> <<>>]
        ELSE IF fullFile = <<>>
        THEN [error |-> "IndexError", blobList |-> <<>>]
        ELSE [error |-> NoError,
              blobList |-> SplitLoop(fullFile,
                               HeaderPrefix(data, zipName,
                                            preset_outFileName, zipFirst),
                               0, <<>>, chunkSize)]

(***************************************************************************)
(* The capacity resolver.  Lengths are in eighths of an inch; a width     *)
(* divided by the number of columns is kept as a fraction num/den.         *)
(***************************************************************************)
Levels == {"L", "M", "H"}

\* the level modifier of getVersionFromChunk, in hundredths
Modifier(level) == CASE level = "H" -> 40 [] level = "M" -> 75
                     [] OTHER -> 100

\* the elif chain falls through from 520 to 1273
getVersionFromChunk_SkipsRung(chunk, level) ==
    LET m == Modifier(level) IN
    IF 100 * chunk <= 106 * m THEN 5
    ELSE IF 100 * chunk <= 271 * m THEN 10
    ELSE IF 100 * chunk <= 520 * m THEN 15
    ELSE IF 100 * chunk <= 1273 * m THEN 25
    ELSE IF 100 * chunk <= 1732 * m THEN 30
    ELSE IF 100 * chunk <= 2303 * m THEN 35
    ELSE 40

getVersionFromChunk(chunk, level) ==
    LET m == Modifier(level) IN
    IF 100 * chunk <= 106 * m THEN 5
    ELSE IF 100 * chunk <= 271 * m THEN 10
    ELSE IF 100 * chunk <= 520 * m THEN 15
    ELSE IF 100 * chunk <= 858 * m THEN 20
    ELSE IF 100 * chunk <= 1273 * m THEN 25
    ELSE IF 100 * chunk <= 1732 * m THEN 30
    ELSE IF 100 * chunk <= 2303 * m THEN 35
    ELSE 40

reduceChunkSize(chunk) ==
    IF chunk >= 2953 THEN 2303
    ELSE IF chunk >= 2303 THEN 1732
    ELSE IF chunk >= 1732 THEN 1273
    ELSE IF chunk >= 1273 THEN 858
    ELSE IF chunk >= 858 THEN 520
    ELSE IF chunk >= 520 THEN 271
    ELSE 106

\* validateUserInput: the ceilings of the level, then of the codec (the
\* PDF_INCLUDE_TXT checks do not apply: --includeText is not given)
validateUserInput(chunk, level) ==
    LET h == IF level = "H" /\ chunk > 1273 THEN 1273 ELSE chunk
        m == IF level = "M" /\ h > 2331 THEN 2331 ELSE h
    IN  IF m > 2953 THEN 2953 ELSE m

LETTER == <<68, 88>>
PLAYING_CARD == <<20, 28>>
INDEX_CARD == <<24, 40>>
HALF_LETTER == <<44, 68>>

\* the page of an --outputType, and whether it is a PDF
PageOf(outputType) ==
    CASE outputType = "index_card" -> INDEX_CARD
      [] outputType = "playing_card" -> PLAYING_CARD
      [] outputType = "half_letter" -> HALF_LETTER
      [] OTHER -> LETTER

IsPdf(outputType) ==
    outputType \in {"letter", "index_card", "playing_card", "half_letter"}

\* the margins, columns and rows setPDFpageDimensionVars settles on when
\* the user gave no margins (0 stands for "not set")
MARGIN_TOP(pagesize) ==
    IF pagesize \in {LETTER, INDEX_CARD, HALF_LETTER} THEN 4 ELSE 2
MARGIN_RIGHT(pagesize) == IF pagesize \in {LETTER, HALF_LETTER} THEN 4 ELSE 2
MARGIN_BOTTOM(pagesize) ==
    IF pagesize \in {LETTER, INDEX_CARD, HALF_LETTER} THEN 4 ELSE 2
MARGIN_LEFT(pagesize) == IF pagesize \in {LETTER, HALF_LETTER} THEN 4 ELSE 2
MARGIN_INTERIOR(pagesize) == IF pagesize = LETTER THEN 4 ELSE 0
ColumnsOf(columns, pagesize) ==
    IF columns # 0 THEN columns ELSE IF pagesize = LETTER THEN 2 ELSE 1
RowsOf(rows, pagesize) ==
    IF rows # 0 THEN rows
    ELSE IF pagesize \in {LETTER, HALF_LETTER} THEN 2 ELSE 1

\* PDF_HEADER_FONT_SIZE / inch = 18 / 72 of an inch
HeaderHeight == 2

getImageWidth(pageWidth, perPage, totalOuterMargin, innerMargin, columns) ==
    IF perPage > 1 /\ columns > 1
    THEN [num |-> pageWidth - totalOuterMargin - innerMargin * (columns - 1),
          den |-> columns]
    ELSE [num |-> pageWidth - totalOuterMargin, den |-> 1]

\* CODE_WIDTH: the smaller of the width and the height a code may take
CodeWidth(pagesize, columns, rows) ==
    LET cols == ColumnsOf(columns, pagesize)
        rws == RowsOf(rows, pagesize)
        maxWidth == getImageWidth(pagesize[1], cols * rws,
                        MARGIN_LEFT(pagesize) + MARGIN_RIGHT(pagesize),
                        MARGIN_INTERIOR(pagesize), cols)
        maxHeight == getImageWidth(pagesize[2], cols * rws,
                        2 * MARGIN_TOP(pagesize) + MARGIN_BOTTOM(pagesize)
                            + HeaderHeight,
                        MARGIN_INTERIOR(pagesize), rws)
    IN  IF maxWidth.num * maxHeight.den > maxHeight.num * maxWidth.den
        THEN maxHeight ELSE maxWidth

\* moduleWidth = CODE_WIDTH * dpi / minModuleDotWidth = CODE_WIDTH * 72 / 2
\* and CODE_WIDTH = w.num / (8 * w.den) inches: moduleWidth < 177
ModuleWidthBelow177(w) == 9 * w.num < 354 * w.den

\* version > maxQRversion, where maxQRversion = (moduleWidth - 21) / 4
ExceedsMaxQRversion(version, w) == (4 * version + 21) * 2 * w.den > 9 * w.num

\* the loop does not look at the version
LoopCondition_IgnoresVersion(version, chunk, w) == chunk < 107

\* the condition of the loop of setPDFpageDimensionVars
LoopCondition(version, chunk, w) ==
    \/ ExceedsMaxQRversion(version, w)
    \/ chunk < 107

(***************************************************************************)
(* The frame reassembler.  out is the qrCodeOutput object, which           *)
(* decodeQRandAppend changes in place.                                     *)
(***************************************************************************)
qrCodeOutput(isBinaryFile, outFileName, finalOutputString) ==
    [isBinaryFile |-> isBinaryFile, outFileName |-> outFileName,
     finalOutputString |-> finalOutputString]

\* decodeQRandAppend up to the file name header: the flags and the name of
\* a frame at index 0.  zip is the new value of ZIP_DECODE.
ParseHeader(qrdata, out, index, zip) ==
    LET isB64 == index = 0 /\ StartsWith(qrdata, B64Marker)
        d1 == IF isB64 THEN Drop(qrdata, Len(B64Marker)) ELSE qrdata
        isZip == index = 0 /\ StartsWith(d1, ZipMarker)
        d2 == IF isZip THEN Drop(d1, Len(ZipMarker)) ELSE d1
        out1 == IF isB64 THEN [out EXCEPT !.isBinaryFile = TRUE] ELSE out
        zip1 == IF isZip THEN TRUE ELSE zip
    IN  IF index = 0 /\ StartsWith(d2, NameOpen) THEN
            LET d3 == Drop(d2, Len(NameOpen)) IN
            IF ~Contains(d3, NameClose)
            THEN [error |-> "ValueError", out |-> out1, data |-> d3,
                  zip |-> zip1]
            ELSE
                LET extractedFileName == SubSeq(d3, 1, StrIndex(d3, NameClose))
                    named == IF out1.outFileName = None
                                \/ out1.outFileName = <<>>
                             THEN extractedFileName
                             ELSE out1.outFileName
                                  \o getextension(extractedFileName)
                IN  [error |-> NoError,
                     out |-> [out1 EXCEPT !.outFileName = named],
                     data |-> Drop(Drop(d3, Len(extractedFileName)),
                                   Len(NameClose)),
                     zip |-> zip1]
        ELSE [error |-> NoError, out |-> out1, data |-> d2, zip |-> zip1]

\* decodeQRandAppend from countMatch = True to the end of the index marker
ParseCount(data, index) ==
    IF StartsWith(data, CountOpen) THEN
        LET d1 == Drop(data, Len(CountOpen)) IN
        IF ~Contains(d1, CountClose)
           \/ ~IntParses(SubSeq(d1, 1, StrIndex(d1, CountClose)))
        THEN [error |-> "ValueError", data |-> d1, count |-> 0,
              countMatch |-> TRUE, noCount |-> FALSE]
        ELSE
            LET count == int(SubSeq(d1, 1, StrIndex(d1, CountClose))) IN
            [error |-> NoError,
             data |-> Drop(d1, Len(str(count)) + Len(CountClose)),
             count |-> count, countMatch |-> (count = index),
             noCount |-> FALSE]
    ELSE [error |-> NoError, data |-> data, count |-> 0,
          countMatch |-> TRUE, noCount |-> TRUE]

\* decodeQRandAppend up to the decision: the frame's parse, with the
\* finalOutputString of a rejected scan (None) set back to ''; accept is
\* the answer typed so far, none
ParseFrame(qrdata, out, index, zip) ==
    LET out0 == IF out.finalOutputString = None
                THEN [out EXCEPT !.finalOutputString = <<>>] ELSE out
        h == ParseHeader(qrdata, out0, index, zip)
        c == ParseCount(h.data, index)
    IN  IF h.error # NoError
        THEN [error |-> h.error, out |-> h.out, zip |-> h.zip,
              data |-> h.data, count |-> 0, countMatch |-> TRUE,
              noCount |-> FALSE, accept |-> ""]
        ELSE [error |-> c.error, out |-> h.out, zip |-> h.zip,
              data |-> c.data, count |-> c.count,
              countMatch |-> c.countMatch, noCount |-> c.noCount,
              accept |-> ""]

\* asks only about an index that differs, not about a missing one
AsksUser_OnlyOnCount(parsed, fromCamera) ==
    parsed.countMatch = FALSE /\ fromCamera

\* whether decodeQRandAppend asks the user to accept or rescan
AsksUser(parsed, fromCamera) ==
    (parsed.countMatch = FALSE \/ parsed.noCount = TRUE) /\ fromCamera

\* the new text is put in front of the text collected so far
AppendData_Prepends(out, data) ==
    [out EXCEPT !.finalOutputString = data \o out.finalOutputString]

\* out.finalOutputString = out.finalOutputString + data
AppendData(out, data) ==
    [out EXCEPT !.finalOutputString = out.finalOutputString \o data]

\* accept == 'R': out.finalOutputString = None
RejectData(out) == [out EXCEPT !.finalOutputString = None]

\* decodeQRandAppend(qr, out, index, False): no decision is asked for
DecodeFromPNG(qrdata, state, index) ==
    IF state.error # NoError THEN state
    ELSE LET p == ParseFrame(qrdata, state.out, index, state.zip) IN
         [error |-> p.error,
          out |-> IF p.error = NoError THEN AppendData(p.out, p.data)
                  ELSE p.out,
          zip |-> p.zip]

RECURSIVE DecodeAll(_, _, _)
\* for qr in decoded: out = decodeQRandAppend(qr, out, index, False)
DecodeAll(decoded, state, index) ==
    IF decoded = <<>> THEN state
    ELSE DecodeAll(Tail(decoded),
                   DecodeFromPNG(Head(decoded), state, index), index)

UnknownFile ==
    <<"u", "n", "k", "n", "o", "w", "n", "f", "i", "l", "e", ".", "t", "x",
      "t">>

\* the archive is removed although it could not be unpacked
writeOutputFile_RemovesUnreadable(out, zip) ==
    LET decoded == IF out.isBinaryFile THEN b64decode(out.finalOutputString)
                   ELSE [ok |-> TRUE, data |-> out.finalOutputString]
        readMethod == IF out.isBinaryFile THEN "wb" ELSE "w"
        name0 == IF out.outFileName = <<>> THEN UnknownFile
                 ELSE out.outFileName
        name == IF zip THEN name0 \o ZipExt ELSE name0
        write == [op |-> "write", name |-> name, mode |-> readMethod,
                  data |-> decoded.data]
        remove == [op |-> "remove", name |-> name, mode |-> "",
                   data |-> <<>>]
    IN  IF ~decoded.ok THEN [error |-> "binascii.Error", fs |-> <<>>]
        ELSE IF name0 = None THEN [error |-> "TypeError", fs |-> <<>>]
        ELSE IF ~zip THEN [error |-> NoError, fs |-> <<write>>]
        ELSE IF ~(out.isBinaryFile /\ IsArchive(decoded.data))
        THEN [error |-> "ReadError", fs |-> <<write, remove>>]
        ELSE [error |-> NoError,
              fs |-> << write,
                        [op |-> "unpack", name |-> name, mode |-> "wb",
                         data |-> unpack_archive(decoded.data)],
                        remove >>]

\* writeOutputFile: the exception raised, if any, and what was done to the
\* file system, in order
writeOutputFile(out, zip) ==
    LET decoded == IF out.isBinaryFile THEN b64decode(out.finalOutputString)
                   ELSE [ok |-> TRUE, data |-> out.finalOutputString]
        readMethod == IF out.isBinaryFile THEN "wb" ELSE "w"
        name0 == IF out.outFileName = <<>> THEN UnknownFile
                 ELSE out.outFileName
        name == IF zip THEN name0 \o ZipExt ELSE name0
        write == [op |-> "write", name |-> name, mode |-> readMethod,
                  data |-> decoded.data]
    IN  IF ~decoded.ok THEN [error |-> "binascii.Error", fs |-> <<>>]
        ELSE IF name0 = None THEN [error |-> "TypeError", fs |-> <<>>]
        ELSE IF ~zip THEN [error |-> NoError, fs |-> <<write>>]
        ELSE IF ~(out.isBinaryFile /\ IsArchive(decoded.data))
        THEN [error |-> "ReadError", fs |-> <<write>>]
        ELSE [error |-> NoError,
              fs |-> << write,
                        [op |-> "unpack", name |-> name, mode |-> "wb",
                         data |-> unpack_archive(decoded.data)],
                        [op |-> "remove", name |-> name, mode |-> "",
                         data |-> <<>>] >>]

(***************************************************************************)
(* The program's state.                                                    *)
(***************************************************************************)
VARIABLES
    args,           \* the command line of this run of the program
    inputFile,      \* the bytes of the file named by args.file
    disk,           \* the PNG files <name>.<i>.png, i = 0, 1, ...: for each
                    \* whether it exists and the texts pyzbar decodes from it
    pc,             \* where the program is
    CHUNK_SIZE, DEBUG_LEVEL, CHUNK_SAFETY_OVERRIDE, ZIP_FIRST, COLUMNS, ROWS,
    ZIP_DECODE,     \* the globals of the script
    call,           \* the arguments of saveMode: pdfMode, zipMode, pagesize
    CODE_WIDTH, chunkOriginal,  \* set by setPDFpageDimensionVars
    iterations,     \* parity of the iterations of its loop so far
    chunkQRversion, \* its local: the version the chunk size would use
    blobList,       \* the frames returned by getAndSplitFile
    out, index,     \* the locals of readFromCamera / readFromPNG
    parsed,         \* the locals of a decodeQRandAppend waiting for input()
    scans,          \* number of frames presented in this session
    result,         \* the exception that ended the run, and the files
                    \* writeOutputFile wrote
    requested,      \* history: the capacity the user asked for last
    saved,          \* history: the command line of the run that wrote disk
    before,         \* history: out, ZIP_DECODE and the frame text when
                    \* the frame being decided on was presented
    collected,      \* history: the texts appended for the accepted frames
    accepted        \* history: the accepted frames, as they were presented

globals == <<CHUNK_SIZE, DEBUG_LEVEL, CHUNK_SAFETY_OVERRIDE, ZIP_FIRST,
             COLUMNS, ROWS, ZIP_DECODE>>
saveVars == <<call, CODE_WIDTH, chunkOriginal, iterations, chunkQRversion,
              blobList>>
loadVars == <<out, index, parsed, scans, before, collected, accepted>>
vars == <<args, inputFile, disk, pc, globals, saveVars, loadVars, result,
          requested, saved>>

(***************************************************************************)
(* The inputs.                                                             *)
(***************************************************************************)
RECURSIVE SeqsUpTo(_, _)
\* the sequences over S of length at most n
SeqsUpTo(S, n) ==
    IF n = 0 THEN {<<>>}
    ELSE LET shorter == SeqsUpTo(S, n - 1) IN
         shorter \cup {Append(q, x) : q \in shorter, x \in S}

\* file contents: every content of at most MaxLen bytes, and longer texts
\* of one repeated letter that fill several frames
LongLens == {14, 29}
Contents == SeqsUpTo(Bytes, MaxLen) \cup {[i \in 1..n |-> 65] : n \in LongLens}

OutNames == {None, <<"n">>}

\* --bytesize values that slice the contents above into several frames;
\* the prefix of frame 0 has 18 to 27 characters
SmallSizes == {5, 19, 21, 24, 26}
\* --bytesize values around the thresholds of the codec
CodecSizes == {50, 106, 107, 300, 1273, 2500, 5000}

NoArgs ==
    [save |-> FALSE, load |-> FALSE, camera |-> FALSE, file |-> <<"a">>,
     name |-> None, outputType |-> "None", bytesizeGiven |-> FALSE,
     bytesize |-> 0, errorcorrection |-> "None", columns |-> 0, rows |-> 0,
     override |-> FALSE, zipfirst |-> FALSE]

\* runs that save small files as PNG files with small frames
EncoderArgs ==
    {[NoArgs EXCEPT !.save = TRUE, !.file = f[1], !.name = f[2],
                    !.bytesizeGiven = TRUE, !.bytesize = b, !.zipfirst = z] :
        f \in {<<<<"a">>, None>>, <<<<"d", "/", "a", ".", "t">>, None>>,
               <<<<"d", "/", "a", ".", "t">>, <<"n">>>>},
        b \in SmallSizes, z \in BOOLEAN}

\* the --bytesize and --errorcorrection of the runs of the resolver
SizeAndLevel ==
    {[NoArgs EXCEPT !.bytesizeGiven = TRUE, !.bytesize = b,
                    !.errorcorrection = e] :
        b \in CodecSizes, e \in {"None", "M", "H"}}
    \cup {[NoArgs EXCEPT !.errorcorrection = e] : e \in {"None", "M", "H"}}

\* runs that save with the capacities, levels and pages of the resolver:
\* as PNG or zip files, as a PDF, or through the menus (customize)
ResolverArgs ==
    {[a EXCEPT !.save = TRUE, !.outputType = o] :
        a \in SizeAndLevel, o \in {"None", "zip"}}
    \cup {[a EXCEPT !.save = TRUE, !.outputType = o, !.columns = c[1],
                    !.rows = c[2], !.override = y] :
            a \in SizeAndLevel,
            o \in {"letter", "index_card", "playing_card", "half_letter"},
            c \in {<<0, 0>>, <<1, 1>>, <<4, 0>>}, y \in BOOLEAN}
    \cup SizeAndLevel

\* runs that load: --load or --camera, with or without --name
LoadArgs ==
    {[NoArgs EXCEPT !.load = l, !.camera = ~l, !.name = n] :
        l \in BOOLEAN, n \in OutNames}

Image(codes) == [exists |-> TRUE, codes |-> codes]
Missing == [exists |-> FALSE, codes |-> <<>>]

NameHeader(name) == NameOpen \o name \o NameClose

\* PNG files that some other run, or another program, left on the disk
ForeignDisks ==
    { \* the frames "::f::a.t::/f::::c0::AB", "::c5::CD" and "::c1::EF"
      << Image(<<NameHeader(<<"a", ".", "t">>) \o CountMarker(0)
                   \o <<"A", "B">>>>),
         Image(<<CountMarker(5) \o <<"C", "D">>>>),
         Image(<<CountMarker(1) \o <<"E", "F">>>>) >>,
      \* a binary first frame, a frame with a leading zero in its index,
      \* a frame with no index marker
      << Image(<<B64Marker \o NameHeader(<<"a", ".", "t">>) \o CountMarker(0)
                   \o <<"Q", "U">>>>),
         Image(<<CountOpen \o <<"0", "1">> \o CountClose \o <<"J", "D">>>>),
         Image(<<<<"Q", "w", "=", "=">>>>) >>,
      \* a first frame with no header, an image with no code, a missing
      \* file, an image with two codes
      << Image(<<CountMarker(0) \o <<"A", "B">>>>),
         Image(<<>>),
         Image(<<CountMarker(2) \o <<"C">>, CountMarker(2) \o <<"D">>>>),
         Missing,
         Image(<<CountMarker(4) \o <<"E">>>>) >>,
      \* an archive flag, an index that is no number, a header never closed
      << Image(<<B64Marker \o ZipMarker \o NameHeader(<<"a">>)
                   \o CountMarker(0) \o <<"A", "E", "E", "=">>>>),
         Image(<<CountOpen \o <<"x">> \o CountClose \o <<"A">>>>),
         Image(<<NameOpen \o <<"a">>>>) >>,
      \* no file of index 0
      << Missing, Image(<<CountMarker(1) \o <<"A">>>>) >>,
      \* a first frame with a header and no index marker
      << Image(<<NameHeader(<<"a", ".", "t">>) \o <<"A", "B">>>>),
         Image(<<CountMarker(1) \o <<"C">>>>) >> }

NoOut == qrCodeOutput(FALSE, None, <<>>)
NoParse == [data |-> <<>>, count |-> 0, countMatch |-> TRUE,
            noCount |-> FALSE, accept |-> ""]
NoBefore == [out |-> NoOut, zip |-> FALSE, qrdata |-> <<>>, index |-> 0]
NoResult == [error |-> NoError, fs |-> <<>>]
NoCall == [pdfMode |-> FALSE, zipMode |-> FALSE, pagesize |-> LETTER]
NoWidth == [num |-> 0, den |-> 1]

\* the values the script gives its globals when it starts
InitGlobals ==
    /\ CHUNK_SIZE = 2928
    /\ DEBUG_LEVEL = "L"
    /\ CHUNK_SAFETY_OVERRIDE = FALSE
    /\ ZIP_FIRST = FALSE
    /\ COLUMNS = 0
    /\ ROWS = 0
    /\ ZIP_DECODE = FALSE

InitLocals ==
    /\ call = NoCall
    /\ CODE_WIDTH = NoWidth
    /\ chunkOriginal = 0
    /\ iterations = 0
    /\ chunkQRversion = 0
    /\ blobList = <<>>
    /\ out = NoOut
    /\ index = 0
    /\ parsed = NoParse
    /\ scans = 0
    /\ result = NoResult
    /\ requested = 2928
    /\ saved = NoArgs
    /\ before = NoBefore
    /\ collected = <<>>
    /\ accepted = <<>>

\* the program is started: to save a file, with no PNG files on the disk,
\* or to load from PNG files that are there
Init ==
    /\ pc = "main"
    /\ InitGlobals
    /\ InitLocals
    /\ \/ /\ args \in EncoderArgs
          /\ inputFile \in Contents
          /\ disk = <<>>
       \/ /\ args \in ResolverArgs
          /\ inputFile = <<65>>
          /\ disk = <<>>
       \/ /\ args \in LoadArgs
          /\ inputFile = <<>>
          /\ disk \in ForeignDisks

(***************************************************************************)
(* Saving.                                                                 *)
(***************************************************************************)
\* setDefaults: the globals after the command line was read
DefaultChunk(a) == IF a.bytesizeGiven THEN a.bytesize ELSE CHUNK_SIZE

DefaultLevel(a) ==
    IF a.errorcorrection \in {"M", "H"} THEN a.errorcorrection
    ELSE DEBUG_LEVEL

\* the ceiling on CHUNK_SIZE that selecting a level applies at once, in
\* setDefaults and in customize (validateUserInput applies it again)
LevelClamp(chunk, selected) ==
    IF selected = "M" /\ chunk > 2331 THEN 2331
    ELSE IF selected = "H" /\ chunk > 1273 THEN 1273
    ELSE chunk

setDefaults ==
    /\ CHUNK_SIZE' = LevelClamp(DefaultChunk(args), args.errorcorrection)
    /\ DEBUG_LEVEL' = DefaultLevel(args)
    /\ CHUNK_SAFETY_OVERRIDE' = args.override
    /\ ZIP_FIRST' = args.zipfirst
    /\ COLUMNS' = IF args.columns # 0 THEN args.columns ELSE COLUMNS
    /\ ROWS' = IF args.rows # 0 THEN args.rows ELSE ROWS
    /\ requested' = DefaultChunk(args)
    /\ UNCHANGED ZIP_DECODE

\* the saveMode call main makes for an --outputType
CallOf(outputType) ==
    [pdfMode |-> IsPdf(outputType), zipMode |-> outputType = "zip",
     pagesize |-> PageOf(outputType)]

\* main: setDefaults, then saveMode, readFromPNG, readFromCamera or, with
\* none of --save, --load and --camera, the menus that lead to customize
Main ==
    /\ pc = "main"
    /\ setDefaults
    /\ pc' = IF args.save THEN "saveMode"
             ELSE IF args.load THEN "readFromPNG"
             ELSE IF args.camera THEN "scan"
             ELSE "customize"
    /\ call' = IF args.save THEN CallOf(args.outputType) ELSE call
    /\ out' = qrCodeOutput(FALSE, args.name, <<>>)
    /\ index' = 0
    /\ UNCHANGED <<args, inputFile, disk, CODE_WIDTH, chunkOriginal,
                   iterations, chunkQRversion, blobList, parsed, scans,
                   before, collected,
                   accepted, result, saved>>

\* customize: a chunk size (0 keeps the current one), a level ('1', '2' or
\* '3') and an output ('1' PNG files, '4' a playing card PDF) are typed in
Customize(NEW_CHUNK_SIZE, NEW_DEBUG_LEVEL, mode) ==
    /\ pc = "customize"
    /\ LET chunk == IF NEW_CHUNK_SIZE = 0 THEN CHUNK_SIZE
                    ELSE IF NEW_CHUNK_SIZE > 2953 THEN 2953
                    ELSE NEW_CHUNK_SIZE
           selected == CASE NEW_DEBUG_LEVEL = "2" -> "M"
                         [] NEW_DEBUG_LEVEL = "3" -> "H"
                         [] OTHER -> "None"
       IN  /\ CHUNK_SIZE' = LevelClamp(chunk, selected)
           /\ DEBUG_LEVEL' = IF selected \in {"M", "H"} THEN selected
                             ELSE DEBUG_LEVEL
    /\ requested' = IF NEW_CHUNK_SIZE = 0 THEN requested ELSE NEW_CHUNK_SIZE
    /\ call' = CallOf(IF mode = "4" THEN "playing_card" ELSE "png")
    /\ pc' = "saveMode"
    /\ UNCHANGED <<args, inputFile, disk, CHUNK_SAFETY_OVERRIDE, ZIP_FIRST,
                   COLUMNS, ROWS, ZIP_DECODE, CODE_WIDTH, chunkOriginal,
                   iterations, chunkQRversion, blobList, loadVars, result,
                   saved>>

\* saveMode: validateUserInput, then for a PDF setPDFpageDimensionVars up
\* to its loop
SaveMode ==
    /\ pc = "saveMode"
    /\ CHUNK_SIZE' = validateUserInput(CHUNK_SIZE, DEBUG_LEVEL)
    /\ IF call.pdfMode
       THEN /\ COLUMNS' = ColumnsOf(COLUMNS, call.pagesize)
            /\ ROWS' = RowsOf(ROWS, call.pagesize)
            /\ CODE_WIDTH' = CodeWidth(call.pagesize, COLUMNS, ROWS)
            /\ chunkOriginal' = CHUNK_SIZE'
            /\ pc' = IF ModuleWidthBelow177(CODE_WIDTH') THEN "pdfLoop"
                     ELSE "split"
            /\ chunkQRversion'
                 = IF ModuleWidthBelow177(CODE_WIDTH')
                   THEN getVersionFromChunk(CHUNK_SIZE', DEBUG_LEVEL)
                   ELSE chunkQRversion
       ELSE /\ pc' = "split"
            /\ UNCHANGED <<COLUMNS, ROWS, CODE_WIDTH, chunkOriginal,
                           chunkQRversion>>
    /\ UNCHANGED <<args, inputFile, disk, DEBUG_LEVEL, CHUNK_SAFETY_OVERRIDE,
                   ZIP_FIRST, ZIP_DECODE, call, iterations, blobList,
                   loadVars, result, requested, saved>>

\* one iteration of the loop of setPDFpageDimensionVars
ReduceChunk ==
    /\ pc = "pdfLoop"
    /\ LoopCondition(chunkQRversion, CHUNK_SIZE, CODE_WIDTH)
    /\ CHUNK_SIZE' = reduceChunkSize(CHUNK_SIZE)
    /\ chunkQRversion' = getVersionFromChunk(CHUNK_SIZE', DEBUG_LEVEL)
    /\ iterations' = 1 - iterations
    /\ UNCHANGED <<args, inputFile, disk, pc, DEBUG_LEVEL,
                   CHUNK_SAFETY_OVERRIDE, ZIP_FIRST, COLUMNS, ROWS,
                   ZIP_DECODE, call, CODE_WIDTH, chunkOriginal, blobList,
                   loadVars, result, requested, saved>>

\* the loop is left; with the override flag the chunk size is set back
ReduceDone ==
    /\ pc = "pdfLoop"
    /\ ~LoopCondition(chunkQRversion, CHUNK_SIZE, CODE_WIDTH)
    /\ CHUNK_SIZE' = IF CHUNK_SAFETY_OVERRIDE THEN chunkOriginal
                     ELSE CHUNK_SIZE
    /\ pc' = "split"
    /\ UNCHANGED <<args, inputFile, disk, DEBUG_LEVEL, CHUNK_SAFETY_OVERRIDE,
                   ZIP_FIRST, COLUMNS, ROWS, ZIP_DECODE, saveVars, loadVars,
                   result, requested, saved>>

\* the name saveMode hands to getAndSplitFile
PresetName(a) ==
    IF a.name = <<>> \/ a.name = None THEN basename(a.file)
    ELSE a.name \o getextension(basename(a.file))

\* the frames of this run's file at the current chunk size
Frames ==
    getAndSplitFile(inputFile, args.file, CHUNK_SIZE, PresetName(args),
                    ZIP_FIRST)

\* saveMode calls getAndSplitFile
Split ==
    /\ pc = "split"
    /\ blobList' = Frames.blobList
    /\ result' = [result EXCEPT !.error = Frames.error]
    /\ pc' = IF Frames.error = NoError THEN "continue" ELSE "exit"
    /\ UNCHANGED <<args, inputFile, disk, globals, call, CODE_WIDTH,
                   chunkOriginal, iterations, chunkQRversion, loadVars,
                   requested, saved>>

\* 'Continue? Y/N': on 'Y' each frame is saved as a PNG file; the files
\* are kept unless a PDF or a zip file is made of them
Continue(continuing) ==
    /\ pc = "continue"
    /\ disk' = IF continuing = "Y" /\ ~call.pdfMode /\ ~call.zipMode
               THEN [i \in 1..Len(blobList) |-> Image(<<blobList[i]>>)]
               ELSE disk
    /\ saved' = IF continuing = "Y" THEN args ELSE saved
    /\ pc' = "exit"
    /\ UNCHANGED <<args, inputFile, globals, saveVars, loadVars, result,
                   requested>>

\* the program is run again, to load the PNG files the last run saved
Relaunch ==
    /\ pc = "exit"
    /\ args.save
    /\ disk # <<>>
    /\ args' \in LoadArgs
    /\ args'.camera => Len(disk) \in 2..MaxScans
    /\ pc' = "main"
    /\ CHUNK_SIZE' = 2928
    /\ DEBUG_LEVEL' = "L"
    /\ CHUNK_SAFETY_OVERRIDE' = FALSE
    /\ ZIP_FIRST' = FALSE
    /\ COLUMNS' = 0
    /\ ROWS' = 0
    /\ ZIP_DECODE' = FALSE
    /\ requested' = 2928
    /\ UNCHANGED <<inputFile, disk, saveVars, loadVars, result, saved>>

(***************************************************************************)
(* Loading.                                                                *)
(***************************************************************************)
\* readFromPNG: the file of this index exists; every code pyzbar finds in
\* it is decoded and appended
ReadPNG ==
    /\ pc = "readFromPNG"
    /\ index < Len(disk)
    /\ disk[index + 1].exists
    /\ LET s == DecodeAll(disk[index + 1].codes,
                          [error |-> NoError, out |-> out, zip |-> ZIP_DECODE],
                          index)
       IN  /\ out' = s.out
           /\ ZIP_DECODE' = s.zip
           /\ result' = [result EXCEPT !.error = s.error]
           /\ pc' = IF s.error = NoError THEN "readFromPNG" ELSE "exit"
           /\ collected' = s.out.finalOutputString
    /\ accepted' = accepted \o disk[index + 1].codes
    /\ index' = index + 1
    /\ scans' = scans + 1
    /\ UNCHANGED <<args, inputFile, disk, CHUNK_SIZE, DEBUG_LEVEL,
                   CHUNK_SAFETY_OVERRIDE, ZIP_FIRST, COLUMNS, ROWS, saveVars,
                   parsed, before, requested, saved>>

\* a missing file is skipped while files of a higher index are left
EndPNG_SkipsMissing ==
    /\ pc = "readFromPNG"
    /\ ~(index < Len(disk) /\ disk[index + 1].exists)
    /\ IF index < Len(disk)
       THEN /\ index' = index + 1
            /\ UNCHANGED <<pc, result>>
       ELSE /\ result' = writeOutputFile(out, ZIP_DECODE)
            /\ pc' = "exit"
            /\ UNCHANGED index
    /\ UNCHANGED <<args, inputFile, disk, globals, saveVars, out, parsed,
                   scans, before, collected, accepted, requested, saved>>

\* readFromPNG: the file of this index does not exist; exit(1) at index 0,
\* else writeOutputFile
EndPNG ==
    /\ pc = "readFromPNG"
    /\ ~(index < Len(disk) /\ disk[index + 1].exists)
    /\ result' = IF index = 0 THEN [result EXCEPT !.error = "exit(1)"]
                 ELSE writeOutputFile(out, ZIP_DECODE)
    /\ pc' = "exit"
    /\ UNCHANGED <<args, inputFile, disk, globals, saveVars, loadVars,
                   requested, saved>>

\* the texts of the codes that can be held in front of the camera
CameraCodes ==
    UNION {{disk[i].codes[j] : j \in 1..Len(disk[i].codes)} :
             i \in 1..Len(disk)}

\* readFromCamera: a code is found in the camera's picture and handed to
\* decodeQRandAppend, which appends its text or asks the user
Scan(qrdata) ==
    /\ pc = "scan"
    /\ scans < MaxScans
    /\ qrdata \in CameraCodes
    /\ scans' = scans + 1
    /\ before' = [out |-> out, zip |-> ZIP_DECODE, qrdata |-> qrdata,
                  index |-> index]
    /\ LET p == ParseFrame(qrdata, out, index, ZIP_DECODE) IN
       /\ parsed' = [data |-> p.data, count |-> p.count,
                     countMatch |-> p.countMatch, noCount |-> p.noCount,
                     accept |-> p.accept]
       /\ ZIP_DECODE' = p.zip
       /\ result' = [result EXCEPT !.error = p.error]
       /\ IF p.error # NoError
          THEN /\ pc' = "exit"
               /\ out' = p.out
               /\ UNCHANGED <<collected, accepted>>
          ELSE IF AsksUser(p, TRUE)
          THEN /\ pc' = "accept"
               /\ out' = p.out
               /\ UNCHANGED <<collected, accepted>>
          ELSE /\ pc' = "more"
               /\ out' = AppendData(p.out, p.data)
               /\ collected' = collected \o p.data
               /\ accepted' = Append(accepted, qrdata)
    /\ UNCHANGED <<args, inputFile, disk, CHUNK_SIZE, DEBUG_LEVEL,
                   CHUNK_SAFETY_OVERRIDE, ZIP_FIRST, COLUMNS, ROWS, saveVars,
                   index, requested, saved>>

\* readFromCamera: Esc is pressed before a code was found, and
\* outWithNew.finalOutputString is read of outWithNew = None
Escape ==
    /\ pc = "scan"
    /\ result' = [result EXCEPT !.error = "AttributeError"]
    /\ pc' = "exit"
    /\ UNCHANGED <<args, inputFile, disk, globals, saveVars, loadVars,
                   requested, saved>>

\* decodeQRandAppend: the answer to '(A)ccept this code or (R)escan';
\* after 'R' readFromCamera scans again for the same index
Accept(accept) ==
    /\ pc = "accept"
    /\ out' = IF accept = "A" THEN AppendData(out, parsed.data)
              ELSE IF accept = "R" THEN RejectData(out)
              ELSE out
    /\ collected' = IF accept = "A" THEN collected \o parsed.data
                    ELSE collected
    /\ accepted' = IF accept = "A" THEN Append(accepted, before.qrdata)
                   ELSE accepted
    /\ parsed' = [parsed EXCEPT !.accept = accept]
    /\ pc' = IF accept = "A" THEN "more"
             ELSE IF accept = "R" THEN "scan"
             ELSE "accept"
    /\ UNCHANGED <<args, inputFile, disk, globals, saveVars, index, scans,
                   before, result, requested, saved>>

\* the output file is written after every frame that was taken
More_WritesEachFrame(more) ==
    /\ pc = "more"
    /\ index' = IF more = "Y" THEN index + 1 ELSE index
    /\ result' = IF more \in {"Y", "N"} THEN writeOutputFile(out, ZIP_DECODE)
                 ELSE result
    /\ pc' = IF more = "Y" THEN "scan"
             ELSE IF more = "N" THEN "exit"
             ELSE "more"
    /\ UNCHANGED <<args, inputFile, disk, globals, saveVars, out, parsed,
                   scans, before, collected, accepted, requested, saved>>

\* readFromCamera: the answer to 'Scan another? Y/N'; after 'N'
\* writeOutputFile
More(more) ==
    /\ pc = "more"
    /\ index' = IF more = "Y" THEN index + 1 ELSE index
    /\ result' = IF more = "N" THEN writeOutputFile(out, ZIP_DECODE)
                 ELSE result
    /\ pc' = IF more = "Y" THEN "scan"
             ELSE IF more = "N" THEN "exit"
             ELSE "more"
    /\ UNCHANGED <<args, inputFile, disk, globals, saveVars, out, parsed,
                   scans, before, collected, accepted, requested, saved>>

(***************************************************************************)
(* The specification.                                                      *)
(***************************************************************************)
Next ==
    \/ Main
    \/ \E n \in {0, 2000, 5000}, l \in {"1", "2", "3"}, m \in {"1", "4"} :
          Customize(n, l, m)
    \/ SaveMode
    \/ ReduceChunk
    \/ ReduceDone
    \/ Split
    \/ \E c \in {"Y", "N"} : Continue(c)
    \/ Relaunch
    \/ ReadPNG
    \/ EndPNG
    \/ \E q \in CameraCodes : Scan(q)
    \/ Escape
    \/ \E a \in {"A", "R", "x"} : Accept(a)
    \/ \E m \in {"Y", "N", "x"} : More(m)

Spec == Init /\ [][Next]_vars

\* the same, where the loop of setPDFpageDimensionVars, once entered, keeps
\* running: the interpreter executes its next iteration, or leaves it
FairSpec == Spec /\ WF_vars(ReduceChunk) /\ WF_vars(ReduceDone)

(***************************************************************************)
(* The frame grammar of the specification, for the properties below:       *)
(*   frame[0]   := ["b64:"] [":z:"] "::f::" <basename> "::/f::"            *)
(*                 "::c0::" <payload>                                      *)
(*   frame[i>0] := "::c" <i> "::" <payload>                                *)
(***************************************************************************)
\* a frame presented at position p without the header a frame 0 may carry
GrammarRest(frame, p) ==
    LET a == IF StartsWith(frame, B64Marker)
             THEN Drop(frame, Len(B64Marker)) ELSE frame
        b == IF StartsWith(a, ZipMarker) THEN Drop(a, Len(ZipMarker)) ELSE a
        c == Drop(b, Len(NameOpen))
    IN  IF p # 0 THEN frame
        ELSE IF StartsWith(b, NameOpen) /\ Contains(c, NameClose)
        THEN Drop(c, StrIndex(c, NameClose) + Len(NameClose))
        ELSE b

\* the number of decimal digits that follow "::c" at the start of text
GrammarDigits(text) ==
    LET d == Drop(text, Len(CountOpen))
        lens == {n \in 0..Len(d) : \A i \in 1..n : IsDigit(d[i])}
    IN  CHOOSE n \in lens : \A m \in lens : m <= n

\* text begins with an index marker: "::c", one digit or more, "::"
GrammarHasMarker(text) ==
    /\ StartsWith(text, CountOpen)
    /\ GrammarDigits(text) > 0
    /\ StartsWith(Drop(text, Len(CountOpen) + GrammarDigits(text)),
                  CountClose)

\* the index a marker declares
GrammarDeclared(text) ==
    DigitsValue(SubSeq(text, Len(CountOpen) + 1,
                       Len(CountOpen) + GrammarDigits(text)))

\* the payload of a frame: what follows its index marker, if it has one
GrammarPayload(frame, p) ==
    LET text == GrammarRest(frame, p) IN
    IF GrammarHasMarker(text)
    THEN Drop(text, Len(CountOpen) + GrammarDigits(text) + Len(CountClose))
    ELSE text

\* the frame carries no index marker, or one that declares another index
\* than its arrival position p
GrammarMismatch(frame, p) ==
    LET text == GrammarRest(frame, p) IN
    ~GrammarHasMarker(text) \/ GrammarDeclared(text) # p

\* the frame carries an index marker that declares another index than p
GrammarDeclaresOther(frame, p) ==
    LET text == GrammarRest(frame, p) IN
    GrammarHasMarker(text) /\ GrammarDeclared(text) # p

\* the collected payload that the next frame is appended to
Payload(o) ==
    IF o.finalOutputString = None THEN <<>> ELSE o.finalOutputString

\* this run loads the PNG files that an earlier run saved
LoadsSaved == saved.save /\ (args.load \/ args.camera)

\* the text stream the saving run sliced into frames
SavedStream ==
    LET data == IF saved.zipfirst THEN make_archive(inputFile) ELSE inputFile
    IN  IF BASE64ENCODE(data) THEN b64encode(data) ELSE TextRead(data)

SavedIsBinary ==
    BASE64ENCODE(IF saved.zipfirst THEN make_archive(inputFile)
                 ELSE inputFile)

\* writeOutputFile has written the bytes of the saved file under the name
\* it was saved with
WroteOriginal ==
    /\ result.error = NoError
    /\ Len(result.fs) >= 1
    /\ result.fs[1].name
         = PresetName(saved) \o (IF saved.zipfirst THEN ZipExt ELSE <<>>)
    /\ IF saved.zipfirst
       THEN /\ Len(result.fs) = 3
            /\ result.fs[2].op = "unpack"
            /\ result.fs[2].data = inputFile
       ELSE /\ Len(result.fs) = 1
            /\ \/ result.fs[1].mode = "wb" /\ result.fs[1].data = inputFile
               \/ /\ result.fs[1].mode = "w"
                  /\ result.fs[1].data = RawChars(inputFile)

(***************************************************************************)
(* C1 (round trip).  Every content, the empty one included, is encoded     *)
(* into frames, and when the frames are read back in emission order at     *)
(* the positions 0, 1, 2, ... (readFromPNG, no --name) writeOutputFile     *)
(* writes exactly that content under the name it was saved with.           *)
(***************************************************************************)
C1_RoundTrip ==
    /\ args.save /\ pc = "exit" => result.error = NoError
    /\ LoadsSaved /\ args.load /\ args.name = None /\ pc = "exit"
         => WroteOriginal

(***************************************************************************)
(* C2 (capacity bound).  Every frame getAndSplitFile returns is at most    *)
(* as long as the capacity it was called with, whatever the capacity.      *)
(***************************************************************************)
C2_CapacityBound ==
    pc = "continue" =>
        \A k \in 1..Len(blobList) : Len(blobList[k]) <= CHUNK_SIZE

(***************************************************************************)
(* C3 (reject leaves the payload unchanged).  In a camera session the      *)
(* collected payload, which later frames are appended to and which is      *)
(* written at the end, is at all times the payloads of the frames          *)
(* accepted so far in their order, also after a frame was rejected, and a  *)
(* rejected frame's position is scanned again.                             *)
(***************************************************************************)
C3_RejectKeepsPayload ==
    args.camera =>
        /\ Payload(out) = collected
        /\ parsed.accept = "R" /\ pc = "scan" => index = before.index

(***************************************************************************)
(* C4 (mismatch detection at a live source).  In a camera session, while   *)
(* the frame presented last carries no index marker, or one that declares  *)
(* another index than its arrival position, and no Accept was answered     *)
(* for it, nothing was appended to the collected payload and the position  *)
(* was not advanced, and the session waits at the decision point unless    *)
(* the answer was Reject; it goes on past that point only on Accept.       *)
(***************************************************************************)
C4_MismatchAwaitsDecision ==
    /\ args.camera /\ scans > 0 /\ result.error = NoError
    /\ GrammarMismatch(before.qrdata, before.index)
    => IF parsed.accept = "A"
       THEN /\ pc \in {"more", "scan", "exit"}
            /\ accepted # <<>>
            /\ accepted[Len(accepted)] = before.qrdata
       ELSE /\ index = before.index
            /\ out.finalOutputString \in {Payload(before.out), None}
            /\ pc = (IF parsed.accept = "R" THEN "scan" ELSE "accept")

\* a frame with no index marker waits at the decision point after an
\* answer that is neither Accept nor Reject, with payload collected before
C4_Witness ==
    /\ args.camera /\ pc = "accept" /\ parsed.accept = "x"
    /\ parsed.noCount
    /\ GrammarMismatch(before.qrdata, before.index)
    /\ before.index > 0
    /\ Payload(before.out) # <<>>

(***************************************************************************)
(* C5 (accept anyway).  In a camera session, once Accept was answered for  *)
(* a frame that mismatches its position or carries no index marker, the    *)
(* collected payload is the payload collected before the frame followed,   *)
(* once, by the frame's payload: the text after its index marker, or the   *)
(* whole text if it has none.                                              *)
(***************************************************************************)
C5_AcceptAppendsPayload ==
    /\ args.camera /\ pc = "more" /\ parsed.accept = "A"
    /\ GrammarMismatch(before.qrdata, before.index)
    => out.finalOutputString
         = Payload(before.out) \o GrammarPayload(before.qrdata, before.index)

\* the frames the saving run wrote, in emission order
SavedFrames == [i \in 1..Len(disk) |-> disk[i].codes[1]]

\* a camera session that was shown frames of a saved file, each once, and
\* accepted every one of them
AcceptedAllOnce ==
    /\ args.camera /\ LoadsSaved /\ pc = "more"
    /\ scans = Len(disk) /\ Len(accepted) = Len(disk)
    /\ \A i \in 1..Len(disk) :
          \E j \in 1..Len(accepted) : accepted[j] = SavedFrames[i]

\* the session has the text stream, the name and the flags of the saved
\* file; with --name the name is that base name and the saved extension
ReconstructsSaved ==
    /\ out.finalOutputString = SavedStream
    /\ out.isBinaryFile = SavedIsBinary
    /\ ZIP_DECODE = saved.zipfirst
    /\ out.outFileName
         = IF args.name = None THEN PresetName(saved)
           ELSE args.name \o getextension(PresetName(saved))

RECURSIVE GrammarPayloads(_, _)
\* the payloads of the codes of one image at position p, one after another
GrammarPayloads(codes, p) ==
    IF codes = <<>> THEN <<>>
    ELSE GrammarPayload(Head(codes), p) \o GrammarPayloads(Tail(codes), p)

RECURSIVE EnumeratedPayload(_)
\* the payloads of the images 0 .. n - 1 of the disk
EnumeratedPayload(n) ==
    IF n = 0 THEN <<>>
    ELSE EnumeratedPayload(n - 1) \o GrammarPayloads(disk[n].codes, n - 1)

\* readFromPNG has read an image with a frame that declares another index
\* than the one in the image's file name
ReadMismatchingImage ==
    /\ args.load
    /\ \E i \in 1..index :
          /\ i <= Len(disk)
          /\ \E j \in 1..Len(disk[i].codes) :
                GrammarDeclaresOther(disk[i].codes[j], i - 1)

(***************************************************************************)
(* C7 (an enumerated source treats a mismatch as fatal).  Once readFromPNG *)
(* has read a frame whose declared index differs from the index in its     *)
(* file name, the session has ended with an error, the collected payload   *)
(* is that of the images before it, and no output file was written.        *)
(***************************************************************************)
C7_EnumeratedMismatchFatal ==
    ReadMismatchingImage =>
        /\ pc = "exit"
        /\ result.error # NoError
        /\ result.fs = <<>>
        /\ out.finalOutputString = EnumeratedPayload(index - 1)

(***************************************************************************)
(* C8 (the downgrade terminates).  Whenever setPDFpageDimensionVars is in  *)
(* its downgrade loop, whatever the capacity and the page, it leaves the   *)
(* loop eventually.                                                        *)
(***************************************************************************)
C8_DowngradeTerminates ==
    (pc = "pdfLoop") ~> (pc # "pdfLoop")

\* the ceiling the specification gives each error-correction level
CeilingFor(level) ==
    CASE level = "L" -> 2953
      [] level = "M" -> 2331
      [] level = "H" -> 1273

\* effectiveCapacity = min(requestedCapacity, ceilingFor(level))
Resolve(requestedCapacity, level) ==
    IF requestedCapacity < CeilingFor(level) THEN requestedCapacity
    ELSE CeilingFor(level)

(***************************************************************************)
(* C9 (level ceiling).  When saveMode calls the encoder and no PDF page    *)
(* constrains the capacity, the capacity is the smaller of the capacity    *)
(* the user asked for and the ceiling of the level in force, however the   *)
(* level was selected: on the command line or in the customize menu.       *)
(***************************************************************************)
C9_LevelCeiling ==
    pc = "split" /\ ~call.pdfMode =>
        CHUNK_SIZE = Resolve(requested, DEBUG_LEVEL)

\* the text stream that this run's getAndSplitFile slices into frames
FramedStream ==
    LET data == IF ZIP_FIRST THEN make_archive(inputFile) ELSE inputFile
    IN  IF BASE64ENCODE(data) THEN b64encode(data) ELSE TextRead(data)

\* "::c<k>::"
IndexMarker(k) == <<":", ":", "c">> \o str(k) \o <<":", ":">>

\* the prefixes the grammar allows frame 0 to begin with: ["b64:"] [":z:"]
\* "::f::" <basename> "::/f::" "::c0::", ":z:" only after "b64:"
FrameZeroPrefixes ==
    {flags \o <<":", ":", "f", ":", ":">> \o basename(PresetName(args))
           \o <<":", ":", "/", "f", ":", ":">> \o IndexMarker(0) :
        flags \in {<<>>, <<"b", "6", "4", ":">>,
                   <<"b", "6", "4", ":", ":", "z", ":">>}}

\* what frame k begins with
FramePrefixes(k) == IF k = 0 THEN FrameZeroPrefixes ELSE {IndexMarker(k)}

\* frame k of the frames is well formed
FrameWellFormed(frames, k) ==
    \E pre \in FramePrefixes(k) : StartsWith(frames[k + 1], pre)

\* the payload of frame k: what follows its prefix
FramePayload(frames, k) ==
    LET pre == CHOOSE q \in FramePrefixes(k) : StartsWith(frames[k + 1], q)
    IN  Drop(frames[k + 1], Len(pre))

RECURSIVE FramePayloads(_, _)
\* the payloads of the first n frames, one after another
FramePayloads(frames, n) ==
    IF n = 0 THEN <<>>
    ELSE FramePayloads(frames, n - 1) \o FramePayload(frames, n - 1)

(***************************************************************************)
(* C10 (frame grammar and index monotonicity).  The k-th frame that        *)
(* getAndSplitFile returns, k = 0, 1, 2, ..., carries the index marker     *)
(* "::c<k>::"; frame 0 begins ["b64:"] [":z:"] "::f::" <basename> "::/f::" *)
(* "::c0::", with ":z:" only after "b64:"; every later frame begins with   *)
(* its index marker, and what follows the markers is nothing but the       *)
(* content stream, slice after slice, so no later frame holds a header.    *)
(***************************************************************************)
C10_FrameGrammar ==
    pc = "continue" =>
        /\ blobList # <<>>
        /\ \A k \in 0..(Len(blobList) - 1) : FrameWellFormed(blobList, k)
        /\ FramePayloads(blobList, Len(blobList)) = FramedStream

\* a binary file was archived and sliced into three frames or more
C10_Witness ==
    /\ pc = "continue"
    /\ Len(blobList) >= 3
    /\ StartsWith(blobList[1], <<"b", "6", "4", ":", ":", "z", ":">>)

\* the least index whose PNG file is missing
FirstMissing ==
    CHOOSE k \in 0..Len(disk) :
        /\ k = Len(disk) \/ ~disk[k + 1].exists
        /\ \A i \in 1..k : disk[i].exists

RECURSIVE CodesUpTo(_)
\* the codes of the images 0 .. n - 1, in the order of the indices
CodesUpTo(n) == IF n = 0 THEN <<>> ELSE CodesUpTo(n - 1) \o disk[n].codes

(***************************************************************************)
(* C11 (enumerated session end).  readFromPNG has read the frames of the   *)
(* indices 0, 1, 2, ... in this order and none from the first missing      *)
(* index k on; once it has ended without a decode error it has stopped at  *)
(* k and, if k > 0, called writeOutputFile on what the frames 0 .. k - 1   *)
(* gave; if k = 0 it has exited with the not-found error and nothing was   *)
(* written.                                                                *)
(***************************************************************************)
C11_EnumeratedSessionEnd ==
    args.load =>
        /\ index <= FirstMissing
        /\ scans = index
        /\ accepted = CodesUpTo(index)
        /\ pc = "exit" /\ index = 0 =>
              result.error = "exit(1)" /\ result.fs = <<>>
        /\ pc = "exit" /\ index > 0 /\ index < FirstMissing =>
              result.error # NoError /\ result.fs = <<>>
        /\ pc = "exit" /\ index > 0 /\ index = FirstMissing =>
              \/ result = writeOutputFile(out, ZIP_DECODE)
              \/ result.error \notin {NoError, writeOutputFile(out, ZIP_DECODE).error}
                   /\ result.fs = <<>>

\* a session ended at a missing file that files of higher indices follow
C11_Witness ==
    /\ args.load /\ pc = "exit" /\ result.error = NoError
    /\ index = FirstMissing /\ index > 1 /\ index + 1 < Len(disk)
    /\ disk[index + 2].exists
    /\ result.fs # <<>>

\* a session found no file of index 0 and exited
C11_WitnessNotFound ==
    /\ args.load /\ pc = "exit" /\ FirstMissing = 0
    /\ result.error = "exit(1)"

\* r shows that writeOutputFile was called: it wrote a file, or raised one
\* of its exceptions
Materialized(r) ==
    r.fs # <<>> \/ r.error \in {"binascii.Error", "TypeError", "ReadError"}

\* the session was aborted: by a frame that could not be parsed, by Esc, or
\* because there was no file of index 0
Aborted == result.error \in {"ValueError", "AttributeError", "exit(1)"}

(***************************************************************************)
(* C12 (materialize only at completion).  In a camera or PNG session       *)
(* writeOutputFile is called at most once, by the step that ends the       *)
(* session: after 'N' to 'Scan another?', or at the first missing PNG      *)
(* file, never while an Accept or Rescan answer is awaited; nothing        *)
(* follows it, and an aborted session has written nothing.                 *)
(***************************************************************************)
C12_MaterializeAtCompletion ==
    /\ [](Aborted => result.fs = <<>>)
    /\ [](Materialized(result) => pc = "exit")
    /\ [][(Materialized(result') /\ result' # result =>
               /\ ~Materialized(result)
               /\ \/ args.camera /\ pc = "more"
                  \/ args.load /\ pc = "readFromPNG"
                       /\ index = FirstMissing)
           /\ (Materialized(result) => UNCHANGED vars)]_vars

\* a camera session of two frames or more has written its output file
C12_Witness ==
    /\ args.camera /\ pc = "exit" /\ scans >= 2
    /\ result.error = NoError /\ result.fs # <<>>

(***************************************************************************)
(* C13 (the override restores the requested capacity).  With the override  *)
(* flag set, setPDFpageDimensionVars comes to its end for every page and   *)
(* capacity, and the capacity getAndSplitFile is then called with is the   *)
(* one that was in force when setPDFpageDimensionVars was entered.         *)
(***************************************************************************)
C13_OverrideRestores ==
    /\ [](pc = "split" /\ call.pdfMode /\ CHUNK_SAFETY_OVERRIDE
            => CHUNK_SIZE = chunkOriginal)
    /\ ((pc = "pdfLoop" /\ CHUNK_SAFETY_OVERRIDE) ~> (pc = "split"))

\* the ascending thresholds of the specification and their tiers
TierThresholds == <<106, 271, 520, 858, 1273, 1732, 2303, 2953>>
TierOf(i) == 5 * i

\* the level modifiers of the specification, in hundredths: 1, 0.75, 0.4
TierModifier(level) ==
    CASE level = "L" -> 100 [] level = "M" -> 75 [] level = "H" -> 40

\* threshold i, scaled for the level, is at least the capacity
TierQualifies(i, capacity, level) ==
    TierThresholds[i] * TierModifier(level) >= 100 * capacity

\* the smallest tier whose scaled threshold qualifies, or the maximum tier
SmallestTier(capacity, level) ==
    LET fits == {i \in 1..Len(TierThresholds) :
                    TierQualifies(i, capacity, level)}
    IN  IF fits = {} THEN 40
        ELSE TierOf(CHOOSE i \in fits : \A j \in fits : i <= j)

\* capacities at and next to every scaled threshold
TierProbes ==
    UNION {{(TierThresholds[i] * m) \div 100,
            (TierThresholds[i] * m) \div 100 + 1} :
              i \in 1..Len(TierThresholds), m \in {100, 75, 40}}
    \cup {0, 5000}

\* the version setPDFpageDimensionVars computed for the current chunk size
\* is the smallest qualifying tier, and no smaller capacity gets a higher
\* version, no larger capacity a lower one
TierSelected ==
    pc = "pdfLoop" =>
        /\ chunkQRversion = SmallestTier(CHUNK_SIZE, DEBUG_LEVEL)
        /\ \A c \in TierProbes :
              /\ getVersionFromChunk(c, DEBUG_LEVEL)
                   = SmallestTier(c, DEBUG_LEVEL)
              /\ c <= CHUNK_SIZE =>
                    getVersionFromChunk(c, DEBUG_LEVEL) <= chunkQRversion
              /\ c >= CHUNK_SIZE =>
                    getVersionFromChunk(c, DEBUG_LEVEL) >= chunkQRversion

(***************************************************************************)
(* C14 (tier selection), as claimed.  getVersionFromChunk returns the      *)
(* smallest tier whose scaled threshold is at least the capacity, hence    *)
(* is non-decreasing in the capacity, and 40 if none is; and the capacity  *)
(* getAndSplitFile frames with is at most the scaled top threshold.        *)
(***************************************************************************)
C14_TierAndScaledClamp ==
    /\ TierSelected
    /\ pc = "split" =>
          TierQualifies(Len(TierThresholds), CHUNK_SIZE, DEBUG_LEVEL)

(***************************************************************************)
(* C14, amended.  The same tier selection; the capacity getAndSplitFile    *)
(* frames with is at most the ceiling of the level, 2953, 2331 or 1273,    *)
(* not the scaled top threshold: when no scaled threshold qualifies the    *)
(* tier is 40 and the capacity stays as it is.                             *)
(***************************************************************************)
C14_TierAndLevelCeiling ==
    /\ TierSelected
    /\ pc = "split" => CHUNK_SIZE <= CeilingFor(DEBUG_LEVEL)

\* the loop of setPDFpageDimensionVars has computed tier 40 for a capacity
\* that no scaled threshold qualifies for
C14_Witness ==
    /\ pc = "pdfLoop" /\ chunkQRversion = 40 /\ DEBUG_LEVEL = "M"
    /\ ~TierQualifies(Len(TierThresholds), CHUNK_SIZE, DEBUG_LEVEL)

\* a frame without the "b64:" and ":z:" markers a frame 0 may begin with
GrammarUnflagged(frame) ==
    LET a == IF StartsWith(frame, B64Marker)
             THEN Drop(frame, Len(B64Marker)) ELSE frame
    IN  IF StartsWith(a, ZipMarker) THEN Drop(a, Len(ZipMarker)) ELSE a

\* the frame carries a header "::f::" E "::/f::"
GrammarHasHeader(frame) ==
    /\ StartsWith(GrammarUnflagged(frame), NameOpen)
    /\ Contains(Drop(GrammarUnflagged(frame), Len(NameOpen)), NameClose)

\* the name E in the header of the frame
GrammarName(frame) ==
    LET rest == Drop(GrammarUnflagged(frame), Len(NameOpen))
    IN  SubSeq(rest, 1, StrIndex(rest, NameClose))

\* the output name a session gets from a header: E, or the base name the
\* caller supplied and the extension of E
NameFromHeader(frame) ==
    IF args.name = None THEN GrammarName(frame)
    ELSE args.name \o getextension(GrammarName(frame))

(***************************************************************************)
(* C15 (frame-0 header parsing).  Once a frame with a header was           *)
(* presented at position 0, the output name is E of the header, or the     *)
(* caller's base name and the extension of E; the flags are set from its   *)
(* markers, and the text kept of it is its payload, without markers and    *)
(* header.  A frame presented at a later position changes neither the      *)
(* name nor the flags.                                                     *)
(***************************************************************************)
C15_HeaderParsing ==
    /\ /\ args.camera /\ scans > 0 /\ result.error # "ValueError"
       /\ before.index = 0 /\ GrammarHasHeader(before.qrdata)
       => /\ out.outFileName = NameFromHeader(before.qrdata)
          /\ out.isBinaryFile = StartsWith(before.qrdata, B64Marker)
          /\ parsed.data = GrammarPayload(before.qrdata, 0)
    /\ /\ args.load /\ index > 0 /\ result.error # "ValueError"
       /\ Len(disk[1].codes) = 1 /\ GrammarHasHeader(disk[1].codes[1])
       => out.outFileName = NameFromHeader(disk[1].codes[1])
    /\ /\ args.camera /\ scans > 0 /\ before.index > 0
       => /\ out.outFileName = before.out.outFileName
          /\ out.isBinaryFile = before.out.isBinaryFile
          /\ ZIP_DECODE = before.zip

\* the frame presented at position p begins with "::c", and what follows
\* is not decimal digits and "::"
GrammarMalformed(frame, p) ==
    /\ StartsWith(GrammarRest(frame, p), CountOpen)
    /\ ~GrammarHasMarker(GrammarRest(frame, p))

(***************************************************************************)
(* C16 (a malformed index marker is treated as absent).  After a frame     *)
(* that begins with "::c", not followed by digits and "::", was decoded,   *)
(* no index is recorded for it (noCount) and no exception has ended the    *)
(* session, in a live session and in an enumerated one.                    *)
(***************************************************************************)
C16_MalformedMarkerIsAbsent ==
    /\ /\ args.camera /\ scans > 0
       /\ GrammarMalformed(before.qrdata, before.index)
       => result.error # "ValueError" /\ parsed.noCount
    /\ /\ args.load /\ index > 0 /\ Len(disk[index].codes) = 1
       /\ GrammarMalformed(disk[index].codes[1], index - 1)
       => result.error # "ValueError"

\* the content writeOutputFile writes: the collected payload, decoded
\* when the binary flag is set
WrittenContent ==
    IF out.isBinaryFile THEN b64decode(out.finalOutputString).data
    ELSE out.finalOutputString

C17_WitnessUnreadable ==
    /\ ZIP_DECODE /\ result.error = "ReadError" /\ Len(result.fs) = 1

(***************************************************************************)
(* C18 (an ambiguous optical decode is surfaced).  In an enumerated        *)
(* session, after an image in which pyzbar found no code, or more than     *)
(* one, was read, the session has ended with an error; it does not go on   *)
(* to the next index with nothing, or more than one payload, added.        *)
(***************************************************************************)
C18_AmbiguousDecodeSurfaced ==
    /\ args.load /\ index > 0 /\ Len(disk[index].codes) # 1
    => pc = "exit" /\ result.error # NoError /\ result.fs = <<>>

\* the frame presented at position p carries an index marker that
\* declares p, in any spelling
GrammarDeclaresPosition(frame, p) ==
    /\ GrammarHasMarker(GrammarRest(frame, p))
    /\ GrammarDeclared(GrammarRest(frame, p)) = p

(***************************************************************************)
(* C19 (acceptance without decision).  A frame whose index marker          *)
(* declares its arrival position, in any spelling of the digits, is        *)
(* appended with no decision asked, and the collected payload is then the  *)
(* payload collected before followed by exactly the text after the         *)
(* marker's closing "::": in a camera session for the frame presented      *)
(* last, in an enumerated session for the images read so far.              *)
(***************************************************************************)
C19_AcceptWithoutDecision ==
    /\ /\ args.camera /\ scans > 0
       /\ GrammarDeclaresPosition(before.qrdata, before.index)
       => /\ pc # "accept" /\ parsed.accept = ""
          /\ result.error # "ValueError"
          /\ out.finalOutputString
               = Payload(before.out)
                 \o GrammarPayload(before.qrdata, before.index)
    /\ /\ args.load /\ index > 0
       /\ \A i \in 1..index :
             /\ Len(disk[i].codes) = 1
             /\ GrammarDeclaresPosition(disk[i].codes[1], i - 1)
       => /\ result.error # "ValueError"
          /\ out.finalOutputString = EnumeratedPayload(index)

(***************************************************************************)
(* C20 (greedy slicing).  When getAndSplitFile returns more than one       *)
(* frame, every frame but the last is exactly CHUNK_SIZE characters long;  *)
(* the last one, which was not closed, is shorter than that and is still   *)
(* in the list, beginning with its index marker, even if nothing follows   *)
(* the marker; together the frames hold the whole stream.                  *)
(***************************************************************************)
C20_GreedySlicing ==
    pc = "continue" /\ Len(blobList) > 1 =>
        LET n == Len(blobList) IN
        /\ \A k \in 1..(n - 1) : Len(blobList[k]) = CHUNK_SIZE
        /\ Len(blobList[n]) < CHUNK_SIZE
        /\ StartsWith(blobList[n], IndexMarker(n - 1))
        /\ FramePayloads(blobList, n) = FramedStream

\* three frames or more, the last one with some payload
C20_Witness ==
    /\ pc = "continue" /\ Len(blobList) >= 3
    /\ Len(blobList[Len(blobList)]) > Len(IndexMarker(Len(blobList) - 1))

\* the stream ended where a frame was closed: the last frame is a marker
C20_WitnessMarkerOnly ==
    /\ pc = "continue" /\ Len(blobList) > 1
    /\ blobList[Len(blobList)] = IndexMarker(Len(blobList) - 1)

\* the thresholds of the downgrade ladder
Ladder == {106, 271, 520, 858, 1273, 1732, 2303, 2953}

\* the largest threshold of the ladder that is strictly less than c
LadderBelow(c) ==
    CHOOSE t \in Ladder : t < c /\ \A u \in Ladder : u < c => u <= t

(***************************************************************************)
(* C21 (single-step downgrade).  Each iteration of the downgrade loop      *)
(* replaces a capacity c by reduceChunkSize(c): for c > 106 this is the    *)
(* largest threshold of the ladder strictly less than c, and for every c   *)
(* it is not greater than c.                                               *)
(***************************************************************************)
C21_SingleStepDowngrade ==
    [][pc = "pdfLoop" /\ pc' = "pdfLoop" =>
          /\ CHUNK_SIZE > 106 => CHUNK_SIZE' = LadderBelow(CHUNK_SIZE)
          /\ CHUNK_SIZE' <= CHUNK_SIZE]_vars

\* the session has come to its end and called writeOutputFile, the caller
\* gave no output name, and the frame taken at position 0 has no header
EndedWithoutName ==
    /\ pc = "exit" /\ args.name = None /\ out.outFileName = None
    /\ result.error \notin {"ValueError", "AttributeError", "exit(1)"}
    /\ \/ /\ args.load /\ index = FirstMissing /\ index > 0
          /\ \A j \in 1..Len(disk[1].codes) :
                ~GrammarHasHeader(disk[1].codes[j])
       \/ /\ args.camera /\ accepted # <<>>
          /\ ~GrammarHasHeader(accepted[1])

(***************************************************************************)
(* C22 (default output name).  A session whose frame 0 has no file name    *)
(* header and whose caller gave no output name completes: unless the       *)
(* content could not be decoded or unpacked, writeOutputFile has written   *)
(* the collected content to "unknownfile.txt" and raised nothing.          *)
(***************************************************************************)
C22_DefaultOutputName ==
    /\ EndedWithoutName
    /\ result.error \notin {"binascii.Error", "ReadError"}
    => /\ result.error = NoError
       /\ result.fs # <<>>
       /\ result.fs[1].op = "write"
       /\ result.fs[1].name = UnknownFile
       /\ result.fs[1].data = WrittenContent

(***************************************************************************)
(* C23 (a reject at position 0 leaves the metadata unchanged).  In a       *)
(* camera session, once the frame presented at position 0 was rejected,    *)
(* the binary flag, the archive flag and the output name are what they     *)
(* were before that frame was presented.                                   *)
(***************************************************************************)
C23_RejectRestoresMetadata ==
    /\ args.camera /\ pc = "scan" /\ parsed.accept = "R"
    /\ before.index = 0
    => /\ out.isBinaryFile = before.out.isBinaryFile
       /\ ZIP_DECODE = before.zip
       /\ out.outFileName = before.out.outFileName

\* the downgrade loop of setPDFpageDimensionVars was left, and the
\* override flag is not set
DowngradeFinished ==
    /\ pc = "split" /\ call.pdfMode
    /\ ModuleWidthBelow177(CODE_WIDTH)
    /\ ~CHUNK_SAFETY_OVERRIDE

\* the tier of a capacity is not above the maximum legible tier
Legible(chunk) ==
    ~ExceedsMaxQRversion(getVersionFromChunk(chunk, DEBUG_LEVEL), CODE_WIDTH)

(***************************************************************************)
(* C24 (downgrade postcondition).  When the downgrade loop was left and    *)
(* the override flag is not set, the capacity is not greater than the      *)
(* capacity on entry, its tier is not above the maximum legible tier, and  *)
(* the capacity is the one on entry if the tier of that one was legible.   *)
(***************************************************************************)
C24_DowngradePostcondition ==
    DowngradeFinished =>
        /\ CHUNK_SIZE <= chunkOriginal
        /\ Legible(CHUNK_SIZE)
        /\ Legible(chunkOriginal) => CHUNK_SIZE = chunkOriginal

\* the loop lowered the capacity and was left
C24_Witness == DowngradeFinished /\ CHUNK_SIZE < chunkOriginal

\* the loop was left at once, the tier on entry being legible
C24_WitnessUnchanged ==
    DowngradeFinished /\ Legible(chunkOriginal) /\ CHUNK_SIZE > 300

\* the length of what frame 0 begins with: header prefix and index marker
FrameZeroPrefixLen == Len(blobList[1]) - Len(FramePayload(blobList, 0))

(***************************************************************************)
(* C25 (no marker-only frame).  When getAndSplitFile has sliced a          *)
(* non-empty content at a capacity larger than the header prefix and the   *)
(* index marker of frame 0, every frame it returns holds at least one      *)
(* character of payload after its markers.                                 *)
(***************************************************************************)
C25_NoMarkerOnlyFrame ==
    /\ pc = "continue" /\ inputFile # <<>>
    /\ CHUNK_SIZE > FrameZeroPrefixLen
    => \A k \in 0..(Len(blobList) - 1) : FramePayload(blobList, k) # <<>>

====
